---- MODULE Spec2Model ----
(***************************************************************************)
(* Model of kernel/kcheck.c of ktf: the registry of test cases (the map    *)
(* test_cases, guarded by the mutex tc_lock), the test hooks linked into a  *)
(* test case's fun_list and into a handle's test_list, and the assertion    *)
(* reporting primitive _fail_unless with its counter assert_cnt.            *)
(***************************************************************************)
EXTENDS Integers, Sequences, FiniteSets, TLC

(***************************************************************************)
(* Bounds of the model.                                                    *)
(***************************************************************************)
MaxCalls == 4
MaxHooks == 3
MaxCases == 2
MaxPasses == 3
MaxFails == 2

Threads == {1, 2}
HookIds == 1 .. MaxHooks
CaseIds == 1 .. MaxCases

(***************************************************************************)
(* Program constants.                                                      *)
(***************************************************************************)
MAX_PRINTF == 4096
EBUSY == 16

NULL == 0
NoThread == 0

(***************************************************************************)
(* Inputs: the test descriptors (name, tclass, fun), the handles and the   *)
(* remaining arguments of _tcase_add_test.                                 *)
(***************************************************************************)
Handles == {"O1", "O2"}

AddTestCalls ==
  { [op |-> "_tcase_add_test", th |-> "O1",
     td |-> [name |-> "t1", tclass |-> "a", fun |-> "f1"],
     sig |-> 0, aev |-> 0, start |-> 0, end |-> 1],
    [op |-> "_tcase_add_test", th |-> "O2",
     td |-> [name |-> "t2", tclass |-> "a", fun |-> "f2"],
     sig |-> 9, aev |-> 1, start |-> 2, end |-> 5],
    [op |-> "_tcase_add_test", th |-> "O1",
     td |-> [name |-> "t3", tclass |-> "b", fun |-> "f3"],
     sig |-> 0, aev |-> 1, start |-> 3, end |-> 4] }

CaseNames == { c.td.tclass : c \in AddTestCalls }

NoCall == [op |-> "none"]

VARIABLES
  pc,          \* position of each thread in the function it executes
  call,        \* the arguments of the call each thread executes
  fc,          \* _tcase_add_test: the local fc (a hook, or NULL)
  tc,          \* _tcase_add_test: the local tc (a case, or NULL)
  ret,         \* the value the last call of each thread returned, if any
  ncalls,      \* number of calls made so far
  tc_lock,     \* the mutex tc_lock: its holder, or NoThread
  test_cases,  \* the map test_cases: the set of cases inserted
  caseHeap,    \* allocation state of each struct ktf_case
  kmap,        \* ktf_case::kmap: the name each case is keyed by
  fun_list,    \* ktf_case::fun_list: hooks from the list head onwards
  hookHeap,    \* allocation state of each struct fun_hook
  hook,        \* the fields of each struct fun_hook
  test_list,   \* ktf_handle::test_list: hooks from the list head onwards
  regOrder,    \* history: the hooks in the order they were linked
  assert_cnt,  \* the counter assert_cnt (a u32, kept below its wrap)
  skb,         \* the attributes put into the message so far
  rep,         \* _fail_unless: the locals of each thread's report call
  passes,      \* history: number of passing reports made
  fails,       \* history: number of failing reports made
  streak,      \* history: passing reports made since the last failing one
  overlap      \* history: a report call started while another was under way

regVars == <<test_cases, caseHeap, kmap, fun_list, hookHeap, hook, test_list,
             regOrder>>
thrVars == <<pc, call, fc, tc, ret, tc_lock, ncalls>>
repVars == <<assert_cnt, skb, rep, passes, fails, streak, overlap>>
vars == <<pc, call, fc, tc, ret, tc_lock, ncalls, test_cases, caseHeap, kmap,
          fun_list, hookHeap, hook, test_list, regOrder, assert_cnt, skb,
          rep, passes, fails, streak, overlap>>

(***************************************************************************)
(* Helpers on lists.                                                       *)
(***************************************************************************)
RECURSIVE Remove(_, _)
Remove(s, x) ==
  IF s = <<>> THEN <<>>
  ELSE IF Head(s) = x THEN Remove(Tail(s), x)
  ELSE <<Head(s)>> \o Remove(Tail(s), x)

Range(s) == { s[i] : i \in 1 .. Len(s) }

\* list_add(new, head): new is inserted right after the head
list_add(new, list) == <<new>> \o list

\* the part of s before x
RECURSIVE Before(_, _)
Before(s, x) ==
  IF s = <<>> \/ Head(s) = x THEN <<>>
  ELSE <<Head(s)>> \o Before(Tail(s), x)

\* a list_del that cuts the list at the entry
list_del_rest(entry, list) == Before(list, entry)

\* list_del(entry)
list_del(entry, list) == Remove(list, entry)

\* a field of a kmalloc'ed object that no statement has written
Unset == -1

NoHook == [name |-> "", tclass |-> "", fun |-> "", start |-> 0, end |-> 0,
           handle |-> "", sig |-> Unset, aev |-> Unset]

NoRet == [fn |-> "none", val |-> 0]

(***************************************************************************)
(* kmalloc: the objects are taken from a finite memory; an allocation may   *)
(* fail at any time, and fails when the memory is exhausted.                *)
(***************************************************************************)
FreeHooks == { h \in HookIds : hookHeap[h] = "free" }
FreeCases == { c \in CaseIds : caseHeap[c] = "free" }

Min(S) == CHOOSE x \in S : \A y \in S : x <= y

\* kmalloc(sizeof(struct fun_hook)): the results it can yield
kmalloc_hook == {NULL} \cup (IF FreeHooks = {} THEN {} ELSE {Min(FreeHooks)})

\* kmalloc(sizeof(*tc)): the results it can yield
kmalloc_case == {NULL} \cup (IF FreeCases = {} THEN {} ELSE {Min(FreeCases)})

(***************************************************************************)
(* The name map (ktf_map): exact lookup by name over the inserted elements. *)
(***************************************************************************)
\* ktf_map_find_entry(&test_cases, name, ...): the entries of that name
ktf_map_find_entry(name) == { c \in test_cases : kmap[c] = name }

\* ktf_case_find(name): an entry of that name, or NULL
ktf_case_find(name) ==
  IF ktf_map_find_entry(name) = {} THEN NULL
  ELSE Min(ktf_map_find_entry(name))

\* ktf_map_insert(&test_cases, &tc->kmap): the outcomes it can have.  With
\* an element it inserts it or returns an error; handed the kmap of a null
\* tc it dereferences a null pointer: it faults or returns an error.
ktf_map_insert(elem) ==
  IF elem = NULL THEN {"fault", "error"} ELSE {"inserted", "error"}

\* ktf_map_size(&test_cases)
ktf_case_count == Cardinality(test_cases)

\* a mutex_lock that never waits
LockFree_nowait == TRUE

\* the mutex is free
LockFree == tc_lock = NoThread

(***************************************************************************)
(* Initial state: an empty registry, a free lock, every thread idle.        *)
(***************************************************************************)
InitThreads ==
  /\ pc = [t \in Threads |-> "idle"]
  /\ call = [t \in Threads |-> NoCall]
  /\ fc = [t \in Threads |-> NULL]
  /\ tc = [t \in Threads |-> NULL]
  /\ ret = [t \in Threads |-> NoRet]
  /\ tc_lock = NoThread
  /\ ncalls = 0

InitRegistry ==
  /\ test_cases = {}
  /\ caseHeap = [c \in CaseIds |-> "free"]
  /\ kmap = [c \in CaseIds |-> ""]
  /\ fun_list = [c \in CaseIds |-> <<>>]
  /\ hookHeap = [h \in HookIds |-> "free"]
  /\ hook = [h \in HookIds |-> NoHook]
  /\ test_list = [th \in Handles |-> <<>>]
  /\ regOrder = <<>>

\* the locals of _fail_unless: the arguments result, file, line and the
\* length msg of the text fmt and its arguments format to; the value tmp read
\* by assert_cnt++; buf, the number str of bytes before the first
\* terminator in buf and the highest index top written in buf; the value
\* retval returned. History: cnt0, skb0 and n0 are assert_cnt, the length
\* of skb and streak at the call; nullwrite tells a write went through a
\* null buf.
NoRep ==
  [pc |-> "idle", result |-> 0, file |-> "", line |-> 0, msg |-> 0, tmp |-> 0,
   buf |-> "", str |-> 0, top |-> -1, retval |-> 0, cnt0 |-> 0, skb0 |-> 0,
   n0 |-> 0, nullwrite |-> FALSE]

InitReport ==
  /\ assert_cnt = 0
  /\ skb = <<>>
  /\ rep = [t \in Threads |-> NoRep]
  /\ passes = 0
  /\ fails = 0
  /\ streak = 0
  /\ overlap = FALSE

Init == InitThreads /\ InitRegistry /\ InitReport

(***************************************************************************)
(* _tcase_add_test                                                         *)
(***************************************************************************)
\* the call, and the kmalloc of fc (lines 125-128): return if it failed
AddTestCall(t) ==
  /\ pc[t] = "idle"
  /\ ncalls < MaxCalls
  /\ ncalls' = ncalls + 1
  /\ ret' = [ret EXCEPT ![t] = NoRet]
  /\ \E c \in AddTestCalls, new \in kmalloc_hook :
       IF new = NULL
       THEN UNCHANGED <<pc, call, fc, hookHeap>>
       ELSE /\ hookHeap' = [hookHeap EXCEPT ![new] = "alloc"]
            /\ fc' = [fc EXCEPT ![t] = new]
            /\ call' = [call EXCEPT ![t] = c]
            /\ pc' = [pc EXCEPT ![t] = "add_lock"]
  /\ UNCHANGED <<tc, tc_lock, test_cases, caseHeap, kmap, fun_list, hook,
                 test_list, regOrder>>
  /\ UNCHANGED repVars

\* mutex_lock(&tc_lock) (line 130)
AddTestLock(t) ==
  /\ pc[t] = "add_lock"
  /\ LockFree
  /\ tc_lock' = t
  /\ pc' = [pc EXCEPT ![t] = "add_find"]
  /\ UNCHANGED <<call, fc, tc, ret, ncalls>>
  /\ UNCHANGED regVars
  /\ UNCHANGED repVars

\* ktf_case_find_create: tc = ktf_case_find(name) (line 53)
AddTestFind(t) ==
  /\ pc[t] = "add_find"
  /\ LET found == ktf_case_find(call[t].td.tclass) IN
       /\ tc' = [tc EXCEPT ![t] = found]
       /\ pc' = [pc EXCEPT ![t] = IF found = NULL THEN "add_create"
                                  ELSE "add_link"]
  /\ UNCHANGED <<call, fc, ret, tc_lock, ncalls>>
  /\ UNCHANGED regVars
  /\ UNCHANGED repVars

\* ktf_case_find_create: ktf_case_create and ktf_map_insert (lines 55-60).
\* ktf_case_create yields NULL when kmalloc or ktf_map_elem_init fails
\* (lines 30-38, the case freed again in the latter case); line 56 then
\* hands &tc->kmap of a null tc to ktf_map_insert: on a fault the thread
\* dies in an oops, still holding tc_lock.  When ktf_map_insert returns an
\* error the case is freed and tc is NULL (lines 57-60).
AddTestCreate(t) ==
  /\ pc[t] = "add_create"
  /\ \E new \in kmalloc_case, init_ok \in BOOLEAN :
       LET created == IF init_ok THEN new ELSE NULL IN
       \E outcome \in ktf_map_insert(created) :
         IF outcome = "inserted"
         THEN /\ caseHeap' = [caseHeap EXCEPT ![created] = "alloc"]
              /\ kmap' = [kmap EXCEPT ![created] = call[t].td.tclass]
              /\ fun_list' = [fun_list EXCEPT ![created] = <<>>]
              /\ test_cases' = test_cases \cup {created}
              /\ tc' = [tc EXCEPT ![t] = created]
              /\ pc' = [pc EXCEPT ![t] = "add_link"]
         ELSE /\ pc' = [pc EXCEPT ![t] = IF outcome = "fault" THEN "oops"
                                         ELSE "add_fail"]
              /\ tc' = [tc EXCEPT ![t] = NULL]
              /\ UNCHANGED <<test_cases, caseHeap, kmap, fun_list>>
  /\ UNCHANGED <<call, fc, ret, tc_lock, ncalls, hookHeap, hook, test_list,
                 regOrder>>
  /\ UNCHANGED repVars

\* tc is NULL: printk, kfree(fc), goto out (lines 132-137)
AddTestFail(t) ==
  /\ pc[t] = "add_fail"
  /\ hookHeap' = [hookHeap EXCEPT ![fc[t]] = "free"]
  /\ fc' = [fc EXCEPT ![t] = NULL]
  /\ pc' = [pc EXCEPT ![t] = "add_unlock"]
  /\ UNCHANGED <<call, tc, ret, tc_lock, ncalls, test_cases, caseHeap, kmap,
                 fun_list, hook, test_list, regOrder>>
  /\ UNCHANGED repVars

\* the fields of fc as lines 138-143 set them: _signal and
\* allowed_exit_value are assigned to no field
HookFields(c) ==
  [name |-> c.td.name, tclass |-> c.td.tclass, fun |-> c.td.fun,
   start |-> c.start, end |-> c.end, handle |-> c.th,
   sig |-> Unset, aev |-> Unset]

\* fill in fc and link it into both lists (lines 138-149)
AddTestLink(t) ==
  /\ pc[t] = "add_link"
  /\ hook' = [hook EXCEPT ![fc[t]] = HookFields(call[t])]
  /\ fun_list' = [fun_list EXCEPT ![tc[t]] = list_add(fc[t], @)]
  /\ test_list' = [test_list EXCEPT ![call[t].th] = list_add(fc[t], @)]
  /\ regOrder' = Append(regOrder, fc[t])
  /\ pc' = [pc EXCEPT ![t] = "add_unlock"]
  /\ UNCHANGED <<call, fc, tc, ret, tc_lock, ncalls, test_cases, caseHeap,
                 kmap, hookHeap>>
  /\ UNCHANGED repVars

\* out: mutex_unlock(&tc_lock) and return (lines 150-152)
AddTestUnlock(t) ==
  /\ pc[t] = "add_unlock"
  /\ tc_lock' = NoThread
  /\ pc' = [pc EXCEPT ![t] = "idle"]
  /\ call' = [call EXCEPT ![t] = NoCall]
  /\ fc' = [fc EXCEPT ![t] = NULL]
  /\ tc' = [tc EXCEPT ![t] = NULL]
  /\ UNCHANGED <<ret, ncalls>>
  /\ UNCHANGED regVars
  /\ UNCHANGED repVars

(***************************************************************************)
(* _tcase_cleanup                                                          *)
(***************************************************************************)
\* the call
CleanupCall(t) ==
  /\ pc[t] = "idle"
  /\ \E th \in Handles :
       call' = [call EXCEPT ![t] = [op |-> "_tcase_cleanup", th |-> th]]
  /\ ncalls < MaxCalls
  /\ ncalls' = ncalls + 1
  /\ ret' = [ret EXCEPT ![t] = NoRet]
  /\ pc' = [pc EXCEPT ![t] = "tcu_lock"]
  /\ UNCHANGED <<fc, tc, tc_lock>>
  /\ UNCHANGED regVars
  /\ UNCHANGED repVars

\* mutex_lock(&tc_lock) (line 163)
CleanupLock(t) ==
  /\ pc[t] = "tcu_lock"
  /\ LockFree
  /\ tc_lock' = t
  /\ pc' = [pc EXCEPT ![t] = "tcu_loop"]
  /\ UNCHANGED <<call, fc, tc, ret, ncalls>>
  /\ UNCHANGED regVars
  /\ UNCHANGED repVars

\* an unlink that leaves the hook in its fun_list
unlink_flist_none(fh) == fun_list

\* an unlink that looks at the first case only
unlink_flist_first(fh) ==
  [c \in CaseIds |-> IF c = 1 THEN list_del(fh, fun_list[c]) ELSE fun_list[c]]

\* list_del(&fh->flist) (line 167): fh leaves the fun_list that holds it
unlink_flist(fh) == [c \in CaseIds |-> list_del(fh, fun_list[c])]

\* a loop over the hooks of every handle
th_test_list_all(th) == test_list["O1"] \o test_list["O2"]

\* &th->test_list (line 164): the list the loop of _tcase_cleanup runs over
th_test_list(th) == test_list[th]

\* one iteration of list_for_each_safe over th->test_list (lines 164-170):
\* pos is the first entry left, as every entry visited before was deleted;
\* list_del(&fh->flist), list_del(&fh->hlist), kfree(fh)
CleanupStep(t) ==
  /\ pc[t] = "tcu_loop"
  /\ th_test_list(call[t].th) # <<>>
  /\ LET fh == Head(th_test_list(call[t].th)) IN
       /\ fun_list' = unlink_flist(fh)
       /\ test_list' = [test_list EXCEPT ![call[t].th] = list_del(fh, @)]
       /\ hookHeap' = [hookHeap EXCEPT ![fh] = "free"]
       /\ hook' = [hook EXCEPT ![fh] = NoHook]
       /\ regOrder' = Remove(regOrder, fh)
  /\ UNCHANGED <<test_cases, caseHeap, kmap>>
  /\ UNCHANGED thrVars
  /\ UNCHANGED repVars

\* the loop ends when pos reaches the list head
CleanupLoopEnd(t) ==
  /\ pc[t] = "tcu_loop"
  /\ th_test_list(call[t].th) = <<>>
  /\ pc' = [pc EXCEPT ![t] = "tcu_unlock"]
  /\ UNCHANGED <<call, fc, tc, ret, tc_lock, ncalls>>
  /\ UNCHANGED regVars
  /\ UNCHANGED repVars

\* mutex_unlock(&tc_lock) and return (lines 171-172)
CleanupUnlock(t) ==
  /\ pc[t] = "tcu_unlock"
  /\ tc_lock' = NoThread
  /\ pc' = [pc EXCEPT ![t] = "idle"]
  /\ call' = [call EXCEPT ![t] = NoCall]
  /\ UNCHANGED <<fc, tc, ret, ncalls>>
  /\ UNCHANGED regVars
  /\ UNCHANGED repVars

(***************************************************************************)
(* ktf_cleanup                                                             *)
(***************************************************************************)
\* the call
KtfCleanupCall(t) ==
  /\ pc[t] = "idle"
  /\ call' = [call EXCEPT ![t] = [op |-> "ktf_cleanup"]]
  /\ ncalls < MaxCalls
  /\ ncalls' = ncalls + 1
  /\ ret' = [ret EXCEPT ![t] = NoRet]
  /\ pc' = [pc EXCEPT ![t] = "kc_lock"]
  /\ UNCHANGED <<fc, tc, tc_lock>>
  /\ UNCHANGED regVars
  /\ UNCHANGED repVars

\* mutex_lock(&tc_lock) (line 183)
KtfCleanupLock(t) ==
  /\ pc[t] = "kc_lock"
  /\ LockFree
  /\ tc_lock' = t
  /\ pc' = [pc EXCEPT ![t] = "kc_scan"]
  /\ UNCHANGED <<call, fc, tc, ret, ncalls>>
  /\ UNCHANGED regVars
  /\ UNCHANGED repVars

\* a scan that never finds a hook
StillActive_never == FALSE

\* a scan that looks at one case only
StillActive_one ==
  test_cases # {} /\ fun_list[Min(test_cases)] # <<>>

\* the scan of lines 184-193 meets a hook: some case has an entry in fun_list
StillActive == \E c \in test_cases : fun_list[c] # <<>>

\* ktf_map_delete_all(&test_cases, ...): every case is removed and freed
ktf_map_delete_all ==
  /\ test_cases' = {}
  /\ caseHeap' = [c \in CaseIds |-> IF c \in test_cases THEN "free"
                                    ELSE caseHeap[c]]
  /\ kmap' = [c \in CaseIds |-> IF c \in test_cases THEN "" ELSE kmap[c]]
  /\ fun_list' = [c \in CaseIds |-> IF c \in test_cases THEN <<>>
                                    ELSE fun_list[c]]

\* the scan (lines 184-193): with a hook found, return -EBUSY at line 191,
\* which returns with tc_lock still held; otherwise delete all (line 194)
KtfCleanupScan(t) ==
  /\ pc[t] = "kc_scan"
  /\ IF StillActive
     THEN /\ ret' = [ret EXCEPT ![t] = [fn |-> "ktf_cleanup", val |-> -EBUSY]]
          /\ pc' = [pc EXCEPT ![t] = "idle"]
          /\ call' = [call EXCEPT ![t] = NoCall]
          /\ UNCHANGED <<test_cases, caseHeap, kmap, fun_list>>
     ELSE /\ ktf_map_delete_all
          /\ pc' = [pc EXCEPT ![t] = "kc_unlock"]
          /\ UNCHANGED <<ret, call>>
  /\ UNCHANGED <<fc, tc, tc_lock, ncalls, hookHeap, hook, test_list, regOrder>>
  /\ UNCHANGED repVars

\* mutex_unlock(&tc_lock); return 0 (lines 195-196)
KtfCleanupUnlock(t) ==
  /\ pc[t] = "kc_unlock"
  /\ tc_lock' = NoThread
  /\ ret' = [ret EXCEPT ![t] = [fn |-> "ktf_cleanup", val |-> 0]]
  /\ pc' = [pc EXCEPT ![t] = "idle"]
  /\ call' = [call EXCEPT ![t] = NoCall]
  /\ UNCHANGED <<fc, tc, ncalls>>
  /\ UNCHANGED regVars
  /\ UNCHANGED repVars

(***************************************************************************)
(* The registry under concurrent callers.                                   *)
(***************************************************************************)
Next ==
  \E t \in Threads :
    \/ AddTestCall(t)
    \/ AddTestLock(t)
    \/ AddTestFind(t)
    \/ AddTestCreate(t)
    \/ AddTestFail(t)
    \/ AddTestLink(t)
    \/ AddTestUnlock(t)
    \/ CleanupCall(t)
    \/ CleanupLock(t)
    \/ CleanupStep(t)
    \/ CleanupLoopEnd(t)
    \/ CleanupUnlock(t)
    \/ KtfCleanupCall(t)
    \/ KtfCleanupLock(t)
    \/ KtfCleanupScan(t)
    \/ KtfCleanupUnlock(t)

Spec == Init /\ [][Next]_vars

TypeOK ==
  /\ tc_lock \in Threads \cup {NoThread}
  /\ test_cases \subseteq CaseIds
  /\ \A c \in CaseIds : Range(fun_list[c]) \subseteq HookIds
  /\ assert_cnt \in 0 .. MaxPasses + 1

(***************************************************************************)
(* _fail_unless and flush_assert_cnt                                        *)
(***************************************************************************)
\* the arguments of the report calls
Results == {0, 1, 7}
Files == {"t.c"}
Lines == {42}
MsgLens == {7, MAX_PRINTF - 2, MAX_PRINTF - 1, MAX_PRINTF, MAX_PRINTF + 904}

\* the attribute nla_put_u32 / nla_put_string appends
Attr(type, val) == [type |-> type, val |-> val]

\* an increment by two
Increment_twice(v) == v + 2

\* assert_cnt++ (line 88)
Increment(v) == v + 1

\* a flush that does not test the counter
FlushNeeded_always(cnt) == TRUE

\* if (assert_cnt) (line 73)
FlushNeeded(cnt) == cnt # 0

Smaller(a, b) == IF a < b THEN a ELSE b

\* vsnprintf(buf, size, fmt, ap) for a text of length msg: the number of
\* bytes it stores before the terminator, and the value it returns
vsnprintf_stored(size, msg) == IF size = 0 THEN 0 ELSE Smaller(msg, size - 1)
vsnprintf_ret(size, msg) == msg

\* the call: the arguments are chosen; if (result) (line 87)
RepCall(t) ==
  /\ rep[t].pc = "idle"
  /\ \E result \in Results, file \in Files, line \in Lines, msg \in MsgLens :
       /\ IF result # 0
          THEN /\ passes + Cardinality({u \in Threads :
                    rep[u].pc \in {"inc_read", "inc_write"}}) < MaxPasses
               /\ msg = 7
               /\ UNCHANGED <<fails, streak>>
          ELSE /\ fails < MaxFails
               /\ fails' = fails + 1
               /\ streak' = 0
       /\ rep' = [rep EXCEPT ![t] =
            [NoRep EXCEPT !.pc = IF result # 0 THEN "inc_read"
                                 ELSE "flush_test",
                          !.result = result, !.file = file, !.line = line,
                          !.msg = msg, !.cnt0 = assert_cnt,
                          !.skb0 = Len(skb), !.n0 = streak]]
  /\ overlap' = (overlap \/ \E u \in Threads \ {t} :
                               rep[u].pc \notin {"idle", "ret", "oops"})
  /\ UNCHANGED <<assert_cnt, skb, passes>>
  /\ UNCHANGED regVars
  /\ UNCHANGED thrVars

\* assert_cnt++ (line 88): the read
RepIncRead(t) ==
  /\ rep[t].pc = "inc_read"
  /\ rep' = [rep EXCEPT ![t].tmp = assert_cnt, ![t].pc = "inc_write"]
  /\ UNCHANGED <<assert_cnt, skb, passes, fails, streak, overlap>>
  /\ UNCHANGED regVars
  /\ UNCHANGED thrVars

\* assert_cnt++ (line 88): the write; return result (line 105)
RepIncWrite(t) ==
  /\ rep[t].pc = "inc_write"
  /\ assert_cnt' = Increment(rep[t].tmp)
  /\ passes' = passes + 1
  /\ streak' = streak + 1
  /\ rep' = [rep EXCEPT ![t].pc = "ret", ![t].retval = rep[t].result]
  /\ UNCHANGED <<skb, fails, overlap>>
  /\ UNCHANGED regVars
  /\ UNCHANGED thrVars

\* flush_assert_cnt: if (assert_cnt) (line 73)
RepFlushTest(t) ==
  /\ rep[t].pc = "flush_test"
  /\ rep' = [rep EXCEPT ![t].pc = IF FlushNeeded(assert_cnt) THEN "flush_put"
                                  ELSE "put_stat"]
  /\ UNCHANGED <<assert_cnt, skb, passes, fails, streak, overlap>>
  /\ UNCHANGED regVars
  /\ UNCHANGED thrVars

\* flush_assert_cnt: nla_put_u32(skb, KTF_A_STAT, assert_cnt) (line 75)
RepFlushPut(t) ==
  /\ rep[t].pc = "flush_put"
  /\ skb' = Append(skb, Attr("KTF_A_STAT", assert_cnt))
  /\ rep' = [rep EXCEPT ![t].pc = "flush_reset"]
  /\ UNCHANGED <<assert_cnt, passes, fails, streak, overlap>>
  /\ UNCHANGED regVars
  /\ UNCHANGED thrVars

\* a flush that leaves the counter as it is
RepFlushReset_keep(t) ==
  /\ rep[t].pc = "flush_reset"
  /\ rep' = [rep EXCEPT ![t].pc = "put_stat"]
  /\ UNCHANGED <<assert_cnt, skb, passes, fails, streak, overlap>>
  /\ UNCHANGED regVars
  /\ UNCHANGED thrVars

\* flush_assert_cnt: assert_cnt = 0 (line 76)
RepFlushReset(t) ==
  /\ rep[t].pc = "flush_reset"
  /\ assert_cnt' = 0
  /\ rep' = [rep EXCEPT ![t].pc = "put_stat"]
  /\ UNCHANGED <<skb, passes, fails, streak, overlap>>
  /\ UNCHANGED regVars
  /\ UNCHANGED thrVars

\* nla_put_u32(skb, KTF_A_STAT, result) (line 91)
RepPutStat(t) ==
  /\ rep[t].pc = "put_stat"
  /\ skb' = Append(skb, Attr("KTF_A_STAT", rep[t].result))
  /\ rep' = [rep EXCEPT ![t].pc = "kmalloc"]
  /\ UNCHANGED <<assert_cnt, passes, fails, streak, overlap>>
  /\ UNCHANGED regVars
  /\ UNCHANGED thrVars

\* buf = kmalloc(MAX_PRINTF, GFP_KERNEL) (line 92): it may yield NULL;
\* nla_put_string(skb, KTF_A_FILE, file); nla_put_u32(skb, KTF_A_NUM, line)
\* (lines 93-94)
RepKmalloc(t) ==
  /\ rep[t].pc = "kmalloc"
  /\ \E b \in {"NULL", "buf"} :
       rep' = [rep EXCEPT ![t].buf = b, ![t].pc = "format"]
  /\ skb' = skb \o <<Attr("KTF_A_FILE", rep[t].file),
                     Attr("KTF_A_NUM", rep[t].line)>>
  /\ UNCHANGED <<assert_cnt, passes, fails, streak, overlap>>
  /\ UNCHANGED regVars
  /\ UNCHANGED thrVars

\* len = vsnprintf(buf, MAX_PRINTF-1, fmt, ap); buf[len] = 0 (lines 97-98).
\* The highest index written is len, the first terminator is where vsnprintf
\* put it.  With a null buf both writes go through a null pointer, and with
\* len >= MAX_PRINTF the write of buf[len] falls outside the MAX_PRINTF bytes
\* allocated: either way the thread may die in an oops or go on.
RepFormat(t) ==
  /\ rep[t].pc = "format"
  /\ LET len == vsnprintf_ret(MAX_PRINTF - 1, rep[t].msg)
         stored == vsnprintf_stored(MAX_PRINTF - 1, rep[t].msg)
         undefined == rep[t].buf = "NULL" \/ len >= MAX_PRINTF
     IN \E fault \in BOOLEAN :
          /\ fault => undefined
          /\ rep' = [rep EXCEPT ![t].str = stored,
                                ![t].top = len,
                                ![t].nullwrite = (rep[t].buf = "NULL"),
                                ![t].pc = IF fault THEN "oops" ELSE "put_str"]
  /\ UNCHANGED <<assert_cnt, skb, passes, fails, streak, overlap>>
  /\ UNCHANGED regVars
  /\ UNCHANGED thrVars

\* nla_put_string(skb, KTF_A_STR, buf); tlog; kfree(buf); return result
\* (lines 100-105)
RepPutStr(t) ==
  /\ rep[t].pc = "put_str"
  /\ skb' = Append(skb, Attr("KTF_A_STR", rep[t].str))
  /\ rep' = [rep EXCEPT ![t].pc = "ret", ![t].retval = rep[t].result]
  /\ UNCHANGED <<assert_cnt, passes, fails, streak, overlap>>
  /\ UNCHANGED regVars
  /\ UNCHANGED thrVars

\* the caller has the value returned
RepReturn(t) ==
  /\ rep[t].pc = "ret"
  /\ rep' = [rep EXCEPT ![t] = NoRep]
  /\ UNCHANGED <<assert_cnt, skb, passes, fails, streak, overlap>>
  /\ UNCHANGED regVars
  /\ UNCHANGED thrVars

RepStep(t) ==
  \/ RepCall(t)
  \/ RepIncRead(t)
  \/ RepIncWrite(t)
  \/ RepFlushTest(t)
  \/ RepFlushPut(t)
  \/ RepFlushReset(t)
  \/ RepPutStat(t)
  \/ RepKmalloc(t)
  \/ RepFormat(t)
  \/ RepPutStr(t)
  \/ RepReturn(t)

\* a registry of one case with one hook, as the first of AddTestCalls
\* leaves it
InitRegistryOneHook ==
  /\ test_cases = {1}
  /\ caseHeap = [c \in CaseIds |-> IF c = 1 THEN "alloc" ELSE "free"]
  /\ kmap = [c \in CaseIds |-> IF c = 1 THEN "a" ELSE ""]
  /\ fun_list = [c \in CaseIds |-> IF c = 1 THEN <<1>> ELSE <<>>]
  /\ hookHeap = [h \in HookIds |-> IF h = 1 THEN "alloc" ELSE "free"]
  /\ hook = [h \in HookIds |->
       IF h = 1 THEN [name |-> "t1", tclass |-> "a", fun |-> "f1",
                      start |-> 0, end |-> 1, handle |-> "O1",
                      sig |-> Unset, aev |-> Unset]
       ELSE NoHook]
  /\ test_list = [th \in Handles |-> IF th = "O1" THEN <<1>> ELSE <<>>]
  /\ regOrder = <<1>>

InitRep ==
  /\ InitThreads
  /\ InitRegistry \/ InitRegistryOneHook
  /\ InitReport

\* report calls made one at a time: a call starts when no other is under way
NextRepSeq ==
  \E t \in Threads :
    /\ \A u \in Threads \ {t} : rep[u].pc \in {"idle", "oops"}
    /\ RepStep(t)

SpecRepSeq == InitRep /\ [][NextRepSeq]_vars

\* report calls of concurrent test runs: any thread may take its next step;
\* the texts are short, the results 0 or 1, and at most MaxPasses calls are
\* made in all
NextRep ==
  \E t \in Threads :
    /\ RepStep(t)
    /\ rep'[t].msg \in {0, 7}
    /\ rep'[t].result \in {0, 1}
    /\ passes' + fails' <= MaxPasses

SpecRep == InitRep /\ [][NextRep]_vars

(***************************************************************************)
(* Properties of the registry.                                              *)
(***************************************************************************)
Busy == [fn |-> "ktf_cleanup", val |-> -EBUSY]
Success == [fn |-> "ktf_cleanup", val |-> 0]

\* some test case of the registry has one or more hooks
AnyHook == \E c \in CaseIds : c \in test_cases /\ Len(fun_list[c]) > 0

\* C1: a call of ktf_cleanup that finds a test case with one or more hooks
\* returns -EBUSY and leaves the set of test cases and every hook sequence
\* unchanged; it empties the set of test cases and returns 0 exactly when
\* every test case's hook sequence is empty when it scans them.
C1_ShutdownBusyOrEmpty ==
  [][\A t \in Threads :
       /\ (pc[t] = "kc_scan" /\ pc'[t] # "kc_scan") =>
            IF AnyHook
            THEN /\ pc'[t] = "idle" /\ ret'[t] = Busy
                 /\ UNCHANGED <<test_cases, fun_list, test_list, kmap>>
            ELSE /\ pc'[t] = "kc_unlock" /\ ret'[t] # Busy
                 /\ test_cases' = {}
       /\ (pc[t] = "kc_unlock" /\ pc'[t] = "idle") =>
            /\ ret'[t] = Success
            /\ test_cases = {} /\ test_cases' = {}
       /\ (ret'[t] = Success /\ ret[t] # Success) => pc[t] = "kc_unlock"
       /\ (ret'[t] = Busy /\ ret[t] # Busy) => (pc[t] = "kc_scan" /\ AnyHook)
    ]_vars

\* C1 witness: one thread's ktf_cleanup has returned 0 from an all-empty
\* registry and another thread's has returned -EBUSY with a hook in place
C1_Witness ==
  \E t, u \in Threads :
    /\ ret[t] = Success /\ pc[t] = "idle"
    /\ ret[u] = Busy /\ pc[u] = "idle"
    /\ AnyHook

\* C2: after ktf_cleanup has returned -EBUSY the lock is free, so that the
\* owner's _tcase_cleanup and a later ktf_cleanup can take it and return.
C2_LockFreeAfterBusy ==
  \A t \in Threads : (pc[t] = "idle" /\ ret[t] = Busy) => tc_lock # t

\* the hooks a handle registered that are still allocated
HooksOf(th) == { h \in HookIds : hookHeap[h] = "alloc" /\ hook[h].handle = th }

\* C3: when _tcase_cleanup(th) returns, th's test_list is empty and no test
\* case's fun_list holds a hook of th; every hook still in a fun_list is
\* an allocated hook of another handle.
C3_TeardownUnlinksAll ==
  \A t \in Threads :
    pc[t] = "tcu_unlock" =>
      /\ test_list[call[t].th] = <<>>
      /\ \A c \in CaseIds : \A i \in 1 .. Len(fun_list[c]) :
           /\ hookHeap[fun_list[c][i]] = "alloc"
           /\ hook[fun_list[c][i]].handle # call[t].th

\* C3 witness: a _tcase_cleanup(O1) about to return has freed the hooks
\* of O1 (the only handle that registers in both cases), the hook of O2,
\* allocated third, staying in its case
C3_Witness ==
  \E t \in Threads :
    /\ pc[t] = "tcu_unlock"
    /\ call[t].th = "O1"
    /\ Cardinality(test_cases) = 2
    /\ \E c \in test_cases : fun_list[c] = <<>>
    /\ \E c \in test_cases : fun_list[c] = <<3>>
    /\ test_list["O2"] = <<3>>
    /\ HooksOf("O2") = {3} /\ FreeHooks = {1, 2}

\* C4: the registry never holds two test cases of the same name, and a
\* thread of _tcase_add_test that has resolved its case holds the one case
\* of that name.
C4_OneCasePerName ==
  /\ \A c, d \in test_cases : kmap[c] = kmap[d] => c = d
  /\ \A t \in Threads :
       pc[t] = "add_link" =>
         /\ tc[t] \in test_cases
         /\ kmap[tc[t]] = call[t].td.tclass

\* C4 witness: two threads are in _tcase_add_test for the same case name;
\* one has created the case and linked its hook, the other found that case
C4_Witness ==
  \E t, u \in Threads :
    /\ t # u
    /\ pc[t] = "add_link" /\ pc[u] = "add_lock"
    /\ call[t].td.tclass = call[u].td.tclass
    /\ Cardinality(test_cases) = 1
    /\ fun_list[tc[t]] = <<>>

\* the subsequence of s made of the members of S
RECURSIVE Filter(_, _)
Filter(s, S) ==
  IF s = <<>> THEN <<>>
  ELSE IF Head(s) \in S THEN <<Head(s)>> \o Filter(Tail(s), S)
  ELSE Filter(Tail(s), S)

\* C5: within one test case, going through fun_list from its start yields
\* the hooks in the order they were registered, also after a
\* _tcase_cleanup removed some of them.
C5_IterationIsRegistrationOrder ==
  \A c \in test_cases : fun_list[c] = Filter(regOrder, Range(fun_list[c]))

\* C9: a _tcase_add_test that fails returns normally: no thread dies in
\* ktf_case_find_create, a failed call about to return has changed no list,
\* and neither a hook nor a case is left allocated out of reach.
NoHookLeak ==
  \A h \in HookIds :
    hookHeap[h] = "alloc" =>
      \/ \E th \in Handles : h \in Range(test_list[th])
      \/ \E t \in Threads : fc[t] = h /\ pc[t] # "oops"

C9_FailedAddReturnsClean ==
  /\ \A t \in Threads : pc[t] # "oops"
  /\ \A t \in Threads :
       (pc[t] = "add_unlock" /\ fc[t] = NULL) => tc[t] = NULL
  /\ NoHookLeak
  /\ \A c \in CaseIds : caseHeap[c] = "alloc" => c \in test_cases

(***************************************************************************)
(* Properties of the reporting primitive.                                   *)
(***************************************************************************)
\* the attributes a report call has appended so far
Emitted(t) == SubSeq(skb, rep[t].skb0 + 1, Len(skb))

\* C6: with the report calls made one at a time, a failing report that
\* returns after N passing ones has appended one KTF_A_STAT attribute of
\* value N (none when N = 0), then the result code, the file, the line and
\* the message in that order, and the counter is zero.
C6_FlushThenFailureRecord ==
  \A t \in Threads :
    (rep[t].pc = "ret" /\ rep[t].result = 0) =>
      LET out == Emitted(t)
          k == IF rep[t].n0 > 0 THEN 1 ELSE 0
      IN /\ Len(out) = k + 4
         /\ k = 1 => out[1] = Attr("KTF_A_STAT", rep[t].n0)
         /\ out[k + 1] = Attr("KTF_A_STAT", rep[t].result)
         /\ out[k + 2] = Attr("KTF_A_FILE", rep[t].file)
         /\ out[k + 3] = Attr("KTF_A_NUM", rep[t].line)
         /\ out[k + 4].type = "KTF_A_STR"
         /\ rep[t].msg < MAX_PRINTF - 1 => out[k + 4].val = rep[t].msg
         /\ assert_cnt = 0

\* C6 witness: a failing report returns after three passing ones, and
\* another failing report, with no pass before it, has returned before
C6_Witness ==
  \E t \in Threads :
    /\ rep[t].pc = "ret" /\ rep[t].result = 0
    /\ rep[t].n0 = 3
    /\ Len(Emitted(t)) = 5
    /\ rep[t].skb0 = 4
    /\ fails = 2

\* C7: a failing report whose text is longer than MAX_PRINTF - 1 bytes
\* emits the first MAX_PRINTF - 1 bytes of it, writes only inside the
\* MAX_PRINTF bytes of buf, and returns.
C7_TruncatedInsideBuffer ==
  \A t \in Threads :
    (rep[t].buf = "buf" /\ rep[t].msg > MAX_PRINTF - 1) =>
      /\ rep[t].pc # "oops"
      /\ rep[t].pc \in {"put_str", "ret"} =>
           /\ rep[t].str = MAX_PRINTF - 1
           /\ rep[t].top < MAX_PRINTF

\* C8: a passing report that returns has incremented assert_cnt by one and
\* appended nothing; a report that returns, passing or failing, returns the
\* result it was given; no step of a report changes the registry.
C8_PassCountsOnceReturnsResult ==
  [][\A t \in Threads :
       (rep'[t] # rep[t]) =>
         /\ UNCHANGED <<regVars, thrVars>>
         /\ rep'[t].pc = "ret" =>
              /\ rep'[t].retval = rep'[t].result
              /\ rep'[t].result # 0 =>
                   /\ assert_cnt' = rep'[t].cnt0 + 1
                   /\ Len(skb') = rep'[t].skb0
                   /\ skb' = skb
    ]_vars

\* C8 witness: a passing report with result 7 returns 7 over a registry
\* that holds a hook
C8_Witness ==
  \E t \in Threads :
    /\ rep[t].pc = "ret" /\ rep[t].result = 7 /\ rep[t].retval = 7
    /\ assert_cnt = 2 /\ rep[t].cnt0 = 1
    /\ test_cases # {}

\* C10: a failing report whose kmalloc of buf fails does not write through
\* the null buf, and returns the result.
C10_NoNullWrite ==
  \A t \in Threads : ~rep[t].nullwrite /\ rep[t].pc # "oops"

(***************************************************************************)
(* Properties of the locking and of the two lists of a hook.                *)
(***************************************************************************)
\* the positions between mutex_lock and mutex_unlock (or the return)
InCritical(t) ==
  pc[t] \in {"add_find", "add_create", "add_fail", "add_link", "add_unlock",
             "tcu_loop", "tcu_unlock", "kc_scan", "kc_unlock"}

\* C11: at most one thread is between mutex_lock and mutex_unlock of
\* _tcase_add_test, _tcase_cleanup or ktf_cleanup, that thread holds tc_lock,
\* and every change of the set of test cases, of a fun_list or of a
\* test_list is a step of the thread that holds tc_lock.
C11_MutationsUnderLock ==
  [][/\ \A t, u \in Threads : (InCritical(t)' /\ InCritical(u)') => t = u
     /\ \A t \in Threads : InCritical(t)' => tc_lock' = t
     /\ (<<test_cases, fun_list, test_list>>' # <<test_cases, fun_list, test_list>>)
          => /\ tc_lock \in Threads
             /\ InCritical(tc_lock)
             /\ \A u \in Threads \ {tc_lock} :
                  /\ pc'[u] = pc[u] /\ call'[u] = call[u]
                  /\ fc'[u] = fc[u] /\ tc'[u] = tc[u]
    ]_vars

\* C11 witness: a thread inside _tcase_cleanup holds tc_lock with a hook
\* left to unlink while the other thread, its hook allocated, waits in
\* mutex_lock of _tcase_add_test
C11_Witness ==
  \E t, u \in Threads :
    /\ pc[t] = "tcu_loop" /\ tc_lock = t
    /\ Len(test_list[call[t].th]) = 1
    /\ Cardinality(FreeHooks) = 0
    /\ pc[u] = "add_lock"
    /\ ncalls = 4

\* the number of times x occurs in the sequence s
Occurrences(s, x) == Cardinality({ i \in 1 .. Len(s) : s[i] = x })

\* the hooks that are live: allocated, and not the fc a _tcase_add_test
\* has still to link or to free
LiveHooks ==
  { h \in HookIds : hookHeap[h] = "alloc" /\ \A t \in Threads : fc[t] # h }

\* the hooks in some test case's fun_list, and those in some test_list
HooksInCases == UNION { Range(fun_list[c]) : c \in test_cases }
HooksInHandles == UNION { Range(test_list[th]) : th \in Handles }

\* C12: whenever tc_lock is free, every live hook is exactly once in the
\* fun_list of exactly one test case, the one of the map named by its
\* tclass, and exactly once in the test_list of exactly one handle, its own;
\* the fun_lists and the test_lists hold the same hooks, the live ones.
C12_DualMembership ==
  tc_lock = NoThread =>
    /\ \A h \in LiveHooks :
         /\ \E c \in test_cases :
              /\ kmap[c] = hook[h].tclass
              /\ Occurrences(fun_list[c], h) = 1
              /\ \A d \in CaseIds \ {c} : Occurrences(fun_list[d], h) = 0
         /\ Occurrences(test_list[hook[h].handle], h) = 1
         /\ \A th \in Handles \ {hook[h].handle} :
              Occurrences(test_list[th], h) = 0
    /\ HooksInCases = HooksInHandles
    /\ HooksInCases = LiveHooks
    /\ \A c \in CaseIds \ test_cases : fun_list[c] = <<>>

\* C12 witness: with tc_lock free after registrations and a _tcase_cleanup
\* of O2, hooks of O1 are linked in two test cases
C12_Witness ==
  /\ tc_lock = NoThread
  /\ \A t \in Threads : pc[t] = "idle"
  /\ Cardinality(test_cases) = 2
  /\ Len(test_list["O1"]) = 2
  /\ \A c \in test_cases : Len(fun_list[c]) = 1
  /\ ncalls = 4

\* C13: every hook _tcase_cleanup(th) removes is a hook of th, removed
\* from its fun_list and from th's test_list; the fun_lists and test_lists
\* keep all other hooks in the order they had, and no other hook is freed
\* or changed.
C13_TeardownRemovesOnlyOwn ==
  [][\A t \in Threads :
       (pc[t] \in {"tcu_lock", "tcu_loop", "tcu_unlock"} /\ tc_lock' = t
        /\ <<test_cases, kmap, fun_list, test_list, hook>>'
             # <<test_cases, kmap, fun_list, test_list, hook>>) =>
         \E fh \in HookIds :
           /\ hook[fh].handle = call[t].th
           /\ hookHeap[fh] = "alloc" /\ hookHeap'[fh] = "free"
           /\ \A c \in CaseIds :
                fun_list'[c] = Filter(fun_list[c], HookIds \ {fh})
           /\ \A th \in Handles :
                test_list'[th] = Filter(test_list[th], HookIds \ {fh})
           /\ \A g \in HookIds \ {fh} :
                hook'[g] = hook[g] /\ hookHeap'[g] = hookHeap[g]
           /\ UNCHANGED <<test_cases, kmap, caseHeap>>
    ]_vars

\* C13 witness: _tcase_cleanup(O1) is about to return having removed hooks
\* of O1 from the test case in which the hook of O2, registered between
\* them, stays
C13_Witness ==
  \E t \in Threads :
    /\ pc[t] = "tcu_unlock" /\ call[t].th = "O1"
    /\ test_cases = {1}
    /\ fun_list[1] = <<2>>
    /\ hook[2].handle = "O2"
    /\ test_list["O2"] = <<2>>
    /\ FreeHooks = {1, 3}
    /\ ncalls = 4

\* C14: a _tcase_cleanup(th) whose handle has no hook changes nothing in
\* the registry or the handle and frees nothing: from its mutex_lock to its
\* return the lists, the hooks and the cases stay as they are, so a second
\* _tcase_cleanup(th) right after a first leaves the state of the first.
C14_TeardownOfNothing ==
  [][\A t \in Threads :
       (pc[t] \in {"tcu_loop", "tcu_unlock"} /\ test_list[call[t].th] = <<>>) =>
         /\ UNCHANGED <<test_cases, kmap, caseHeap, fun_list, test_list, hook,
                        regOrder>>
         /\ \A h \in HookIds : hookHeap[h] = "alloc" => hookHeap'[h] = "alloc"
         /\ pc'[t] \in {pc[t], "tcu_unlock", "idle"}
    ]_vars

\* C14 witness: after one registration by O1 and nothing else, a
\* _tcase_cleanup(O2), O2 having no hook, is about to return with O1's hook
\* in place
C14_Witness ==
  \E t \in Threads :
    /\ pc[t] = "tcu_unlock" /\ call[t].th = "O2"
    /\ ncalls = 2
    /\ test_list["O1"] = <<1>>
    /\ \E c \in test_cases : fun_list[c] = <<1>>

\* the hooks linked into some list
LinkedHooks == HooksInCases \cup HooksInHandles

\* C15: a linked hook is freed only by a step of _tcase_cleanup called for
\* the handle that registered it, and is in no list once freed; no list
\* ever holds a freed hook, so that no hook is freed twice; no step of
\* ktf_cleanup frees or unlinks a hook.
C15_HookFreedOnceByOwner ==
  [][/\ \A h \in LinkedHooks' : hookHeap'[h] = "alloc"
     /\ \A h \in LinkedHooks :
          (hookHeap[h] = "alloc" /\ hookHeap'[h] = "free") =>
            /\ tc_lock \in Threads
            /\ pc[tc_lock] = "tcu_loop"
            /\ call[tc_lock].th = hook[h].handle
            /\ h \notin LinkedHooks'
     /\ \A t \in Threads :
          (pc[t] \in {"kc_lock", "kc_scan", "kc_unlock"} /\ pc'[t] # pc[t]) =>
            UNCHANGED <<hookHeap, hook, fun_list, test_list>>
    ]_vars

\* C15 witness: ktf_cleanup has returned -EBUSY with hook 2 linked and
\* allocated, after a _tcase_cleanup freed hook 1
C15_Witness ==
  \E t \in Threads :
    /\ ret[t] = Busy /\ pc[t] = "idle"
    /\ LinkedHooks = {2}
    /\ hookHeap[2] = "alloc"
    /\ FreeHooks = {1, 3}
    /\ ncalls = 4

\* C16: a test case leaves the map only in ktf_cleanup's delete of all
\* cases, and only with its fun_list empty; a case enters only in
\* ktf_case_find_create; _tcase_cleanup changes neither the set of test
\* cases nor ktf_case_count, a case whose last hook it removed staying.
C16_CasePersistsUntilShutdown ==
  [][/\ (test_cases' # test_cases) =>
          /\ tc_lock \in Threads
          /\ \/ /\ pc[tc_lock] = "add_create"
                /\ test_cases \subseteq test_cases'
             \/ /\ pc[tc_lock] = "kc_scan"
                /\ test_cases' = {}
                /\ \A c \in test_cases : fun_list[c] = <<>>
     /\ \A t \in Threads :
          (pc[t] \in {"tcu_loop", "tcu_unlock"}) =>
            /\ test_cases' = test_cases
            /\ Cardinality(test_cases') = ktf_case_count
            /\ \A c \in test_cases : kmap'[c] = kmap[c]
    ]_vars

\* C16 witness: after one registration, the _tcase_cleanup that removed
\* its hook is about to return, and the test case is still there, empty
C16_Witness ==
  \E t \in Threads :
    /\ pc[t] = "tcu_unlock"
    /\ ncalls = 2
    /\ ktf_case_count = 1
    /\ \A c \in test_cases : fun_list[c] = <<>>
    /\ FreeHooks = HookIds

(***************************************************************************)
(* Properties of the counter of passing reports.                            *)
(***************************************************************************)
\* the sum of the pass counts in the message s: a KTF_A_STAT attribute is
\* a flushed count when the next attribute is the KTF_A_STAT of the result
RECURSIVE SumPassCounts(_)
SumPassCounts(s) ==
  IF Len(s) < 2 THEN 0
  ELSE (IF s[1].type = "KTF_A_STAT" /\ s[2].type = "KTF_A_STAT"
        THEN s[1].val ELSE 0) + SumPassCounts(Tail(s))

\* no report call is under way
Quiescent == \A t \in Threads : rep[t].pc \in {"idle", "ret", "oops"}

\* C17: with the report calls made one at a time, between the calls the
\* pass counts emitted so far plus assert_cnt add up to the number of
\* passing reports made.
C17_NoPassLostOrDuplicated ==
  Quiescent => SumPassCounts(skb) + assert_cnt = passes

\* C17 witness: three passing reports and two failing ones have been made,
\* two passes flushed by the first failing report, one by the second
C17_Witness ==
  /\ Quiescent
  /\ passes = 3 /\ fails = 2
  /\ assert_cnt = 0
  /\ Len(skb) = 10
  /\ skb[1] = Attr("KTF_A_STAT", 2)
  /\ skb[6] = Attr("KTF_A_STAT", 1)


\* the tally of passing reports: what the flushes emitted plus the counter
Tally == SumPassCounts(skb) + assert_cnt

\* C18: assert_cnt is incremented, read and reset with no synchronisation, so
\* report calls of concurrent test runs can lose a pass or count it twice;
\* the tally between calls is wrong only when two calls have overlapped, and
\* such a wrong tally is reached (C18_Witness)
C18_TallyWrongOnlyByOverlap ==
  (Quiescent /\ Tally # passes) => overlap

\* two calls have overlapped and a pass is lost: none is in progress, and
\* the emitted counts plus the counter are fewer than the passes made
C18_Witness ==
  /\ Quiescent /\ overlap
  /\ passes >= 2
  /\ Tally < passes


\* C19: after a successful _tcase_add_test every field of the linked hook
\* equals the corresponding argument of the call, the exit policy (_signal
\* and allowed_exit_value) included, and no field is left unset.
C19_HookEqualsArguments ==
  \A t \in Threads :
    (pc[t] = "add_unlock" /\ fc[t] # NULL) =>
      LET h == hook[fc[t]]
          c == call[t]
      IN  /\ h.name = c.td.name /\ h.tclass = c.td.tclass
          /\ h.fun = c.td.fun
          /\ h.start = c.start /\ h.end = c.end
          /\ h.handle = c.th
          /\ h.sig = c.sig /\ h.aev = c.aev
          /\ h.sig # Unset /\ h.aev # Unset


\* C20: in the attributes a failing report has emitted after at least one
\* passing report, the flushed pass count carries an attribute type
\* different from the type of the result code that follows it.
C20_CountTypeDiffersFromResultType ==
  \A t \in Threads :
    (rep[t].pc = "ret" /\ rep[t].result = 0 /\ rep[t].n0 > 0) =>
      /\ Len(Emitted(t)) >= 2
      /\ Emitted(t)[1].type # Emitted(t)[2].type

====
